---- MODULE Spec2Model ----
(***************************************************************************)
(* Verification model of src/app.py: the product search of the Streamlit   *)
(* application (query normalisation, nearest-neighbour lookup, fuzzy       *)
(* scoring, score fusion, threshold and top-k selection).                  *)
(*                                                                         *)
(* Strings are sequences of one-character strings, so that lower(),        *)
(* split(), join(), the `in` substring test and startswith() are computed  *)
(* character by character.  Numbers are fixed-point integers: distances,   *)
(* ai scores and fuzzy scores are in hundredths (Unit = 1.0), the weights  *)
(* are in tenths, and final scores are therefore in thousandths            *)
(* (0.1 is 100).  Array positions are 0-based as in the code; At(s, i)     *)
(* reads position i of a sequence.                                         *)
(***************************************************************************)
EXTENDS Integers, Sequences, FiniteSets, TLC

VARIABLES
  products,          \* the catalogue, loaded once
  pc,                \* where the page is
  query, top_k,      \* the arguments of the last search_products call
  query_clean,       \* the locals of that call, as it ended
  l2,                \* the distance of each catalogue row to the query
  distances, indices,
  ai_scores, fuzzy_scores, substring_boost, startswith_boost,
  final_scores, top_k_indices,
  results            \* the list the call returned

locals == <<query, top_k, query_clean, l2, distances, indices, ai_scores,
            fuzzy_scores, substring_boost, startswith_boost, final_scores,
            top_k_indices, results>>

vars == <<products, pc, locals>>

-----------------------------------------------------------------------------
(* Bounds of the model. *)

\* Largest number of rows of the product catalogue.
MaxCatalog == 3

\* Largest top_k passed to search_products by a direct caller.
MaxTopK == 2

\* Longest raw query of the normalisation specification.
MaxLen == 5

-----------------------------------------------------------------------------
(* Characters and strings. *)

Whitespace == {" ", "\t"}

\* str.lower() on one character.
LowerChar(c) ==
  CASE c = "A" -> "a"
    [] c = "O" -> "o"
    [] c = "T" -> "t"
    [] OTHER -> c

\* Code point order of the lower-case characters and the blank.
Ord(c) ==
  CASE c = "\t" -> 9
    [] c = " " -> 32
    [] c = "A" -> 65
    [] c = "O" -> 79
    [] c = "T" -> 84
    [] c = "a" -> 97
    [] c = "o" -> 111
    [] c = "t" -> 116
    [] OTHER -> 0

\* s.lower()
Lower(s) == [i \in 1..Len(s) |-> LowerChar(s[i])]

\* Length of the run of non-whitespace characters s starts with.
RunLen(s) ==
  CHOOSE n \in 0..Len(s) :
    /\ \A i \in 1..n : s[i] \notin Whitespace
    /\ n = Len(s) \/ s[n + 1] \in Whitespace

RECURSIVE Split(_)
\* s.split(): the maximal runs of non-whitespace characters, in order.
Split(s) ==
  IF s = <<>> THEN <<>>
  ELSE IF s[1] \in Whitespace THEN Split(Tail(s))
  ELSE LET n == RunLen(s)
       IN <<SubSeq(s, 1, n)>> \o Split(SubSeq(s, n + 1, Len(s)))

RECURSIVE Join(_)
\* " ".join(words)
Join(words) ==
  IF words = <<>> THEN <<>>
  ELSE IF Len(words) = 1 THEN words[1]
  ELSE words[1] \o <<" ">> \o Join(Tail(words))

\* s.strip()
Strip(s) ==
  IF \A i \in 1..Len(s) : s[i] \in Whitespace THEN <<>>
  ELSE LET lo == CHOOSE i \in 1..Len(s) :
                   s[i] \notin Whitespace /\ \A j \in 1..(i - 1) : s[j] \in Whitespace
           hi == CHOOSE i \in 1..Len(s) :
                   s[i] \notin Whitespace /\ \A j \in (i + 1)..Len(s) : s[j] \in Whitespace
       IN SubSeq(s, lo, hi)

\* sub in s
Contains(s, sub) ==
  \E i \in 0..(Len(s) - Len(sub)) : SubSeq(s, i + 1, i + Len(sub)) = sub

\* s.startswith(prefix)
StartsWith(s, prefix) ==
  /\ Len(prefix) <= Len(s)
  /\ SubSeq(s, 1, Len(prefix)) = prefix

-----------------------------------------------------------------------------
(* preprocess_query *)

stop_words ==
  { <<"t", "h", "e">>, <<"a">>, <<"a", "n">>, <<"o", "f">>, <<"a", "n", "d">>,
    <<"i", "n">>, <<"f", "o", "r">>, <<"o", "n">>, <<"w", "i", "t", "h">>,
    <<"t", "o">> }

NotStopWord(word) == word \notin stop_words

\* The filter applied to the raw words, before lower-casing (the mutation
\* of preprocess_query that forgets query.lower()).
preprocess_query_nolower(q) == Join(SelectSeq(Split(q), NotStopWord))

preprocess_query(q) == Join(SelectSeq(Split(Lower(q)), NotStopWord))

-----------------------------------------------------------------------------
(* fuzz.token_set_ratio, as called by get_fuzzy_scores. *)

Max(a, b) == IF a >= b THEN a ELSE b

Min(a, b) == IF a <= b THEN a ELSE b

\* Length of the common run of a from position i and b from position j,
\* inside a[..ahi] and b[..bhi].
CommonRun(a, b, i, j, ahi, bhi) ==
  CHOOSE k \in 0..Min(ahi - i + 1, bhi - j + 1) :
    /\ \A x \in 0..(k - 1) : a[i + x] = b[j + x]
    /\ \/ k = Min(ahi - i + 1, bhi - j + 1)
       \/ a[i + k] # b[j + k]

\* SequenceMatcher.find_longest_match: the longest common block of
\* a[alo..ahi] and b[blo..bhi], the earliest in a and then in b among the
\* longest.
LongestMatch(a, b, alo, ahi, blo, bhi) ==
  LET blocks == { <<i, j, CommonRun(a, b, i, j, ahi, bhi)>> :
                    i \in alo..ahi, j \in blo..bhi }
  IN CHOOSE m \in blocks :
       \A o \in blocks :
         \/ o[3] < m[3]
         \/ o[3] = m[3] /\ m[1] < o[1]
         \/ o[3] = m[3] /\ m[1] = o[1] /\ m[2] <= o[2]

RECURSIVE Matches(_, _, _, _, _, _)
\* Sum of the sizes of SequenceMatcher.get_matching_blocks.
Matches(a, b, alo, ahi, blo, bhi) ==
  IF alo > ahi \/ blo > bhi THEN 0
  ELSE LET m == LongestMatch(a, b, alo, ahi, blo, bhi)
       IN IF m[3] = 0 THEN 0
          ELSE m[3]
               + Matches(a, b, alo, m[1] - 1, blo, m[2] - 1)
               + Matches(a, b, m[1] + m[3], ahi, m[2] + m[3], bhi)

\* int(round(num / den)), Python's round (halves go to the even integer).
RoundHalfEven(num, den) ==
  LET q == num \div den
      r == num % den
  IN IF 2 * r < den THEN q
     ELSE IF 2 * r > den THEN q + 1
     ELSE q + (q % 2)

\* fuzz.ratio: 0 for an empty string, 100 for equal strings, otherwise
\* 100 * 2 * M / T rounded.
ratio(s1, s2) ==
  IF s1 = s2 THEN 100
  ELSE IF Len(s1) = 0 \/ Len(s2) = 0 THEN 0
  ELSE RoundHalfEven(200 * Matches(s1, s2, 1, Len(s1), 1, Len(s2)),
                     Len(s1) + Len(s2))

\* utils.full_process on the characters of the model: whitespace becomes a
\* blank, the string is lower-cased and stripped.
full_process(s) ==
  Strip([i \in 1..Len(s) |-> IF s[i] \in Whitespace THEN " " ELSE LowerChar(s[i])])

\* a < b in the order of Python strings.
LexLess(a, b) ==
  \E i \in 1..(Min(Len(a), Len(b)) + 1) :
    /\ \A j \in 1..(i - 1) : a[j] = b[j]
    /\ \/ i = Len(a) + 1 /\ i <= Len(b)
       \/ i <= Len(a) /\ i <= Len(b) /\ Ord(a[i]) < Ord(b[i])

RECURSIVE Sorted(_)
\* sorted(S) for a set of strings.
Sorted(S) ==
  IF S = {} THEN <<>>
  ELSE LET least == CHOOSE x \in S : \A y \in S \ {x} : LexLess(x, y)
       IN <<least>> \o Sorted(S \ {least})

Range(f) == { f[i] : i \in DOMAIN f }

token_set_ratio(s1, s2) ==
  LET p1 == full_process(s1)
      p2 == full_process(s2)
      tokens1 == Range(Split(p1))
      tokens2 == Range(Split(p2))
      sorted_sect == Join(Sorted(tokens1 \cap tokens2))
      sorted_1to2 == Join(Sorted(tokens1 \ tokens2))
      sorted_2to1 == Join(Sorted(tokens2 \ tokens1))
      combined_1to2 == Strip(sorted_sect \o <<" ">> \o sorted_1to2)
      combined_2to1 == Strip(sorted_sect \o <<" ">> \o sorted_2to1)
  IN IF Len(p1) = 0 \/ Len(p2) = 0 THEN 0
     ELSE Max(ratio(sorted_sect, combined_1to2),
              Max(ratio(sorted_sect, combined_2to1),
                  ratio(combined_1to2, combined_2to1)))

-----------------------------------------------------------------------------
(* Numbers of the scoring formula (search_products). *)

\* 1.0 in hundredths.
Unit == 10 * 10

\* Weights of the four signals, in tenths.
AiWeight == 4

FuzzyWeight == 4

StartswithWeight == 1

SubstringWeight == 1

\* The 0.1 threshold on final scores, in thousandths.
Threshold == 100

\* The factor of the candidate pool: faiss_index.search(..., top_k * 3).
Oversample == 3

\* top_k=10, the default the page calls search_products with.
DefaultTopK == 10

-----------------------------------------------------------------------------
(* Inputs of the model. *)

\* Product names of the catalogue: "At", "at o", "o at", "Ta".
NameSet ==
  { <<"A", "t">>, <<"a", "t", " ", "o">>, <<"o", " ", "a", "t">>, <<"T", "a">> }

\* Raw queries typed into the page: "A aT", "a", "ta".
QuerySet ==
  { <<"A", " ", "a", "T">>, <<"a">>, <<"t", "a">> }

\* Squared L2 distances between a query vector and a product vector:
\* 0.0, 1.0 and 2.0.
Dists == { 0, Unit, 2 * Unit }

\* The characters of the raw queries of the normalisation specification.
QueryChars == {"a", "A", "t", "o", " ", "\t"}

\* Every raw query of at most n characters.
Strings(n) == UNION { [1..m -> QueryChars] : m \in 0..n }

\* The catalogues load_products returns in the model: at least one name
\* (the index cannot be built over none), no name twice.
Catalogs ==
  UNION { { c \in [1..n -> NameSet] : \A i, j \in 1..n : i # j => c[i] # c[j] } :
            n \in 1..MaxCatalog }

-----------------------------------------------------------------------------
(* Python lists and numpy arrays: 0-based positions. *)

At(s, i) == s[i + 1]

\* list[i] with Python's negative positions.
PyIndex(list, i) == IF i < 0 THEN list[Len(list) + i + 1] ELSE list[i + 1]

\* The slice left out.
TakeAll(s, k) == s

\* The slice taken from the wrong end, seq[-k:].
TakeLast(s, k) == SubSeq(s, Max(1, Len(s) - k + 1), Len(s))

\* seq[:k]

Take(s, k) == SubSeq(s, 1, Min(k, Len(s)))

\* The orders of the positions 0..n-1.
AllOrders(n) ==
  { p \in [1..n -> 0..(n - 1)] : \A i, j \in 1..n : i # j => p[i] # p[j] }

\* AllOrders for the lengths a catalogue can have, computed once.
OrdersTable == [n \in 0..MaxCatalog |-> AllOrders(n)]

Orders(n) == IF n <= MaxCatalog THEN OrdersTable[n] ELSE AllOrders(n)

-----------------------------------------------------------------------------
(* model.encode and faiss_index.search *)

\* The distances of the catalogue's vectors to the query's vector.  The
\* encoder is a function of the text: equal names lie equally far from the
\* query, and a name that is the encoded text itself lies at distance 0.
EncoderDistances(names, text) ==
  { d \in [1..Len(names) -> Dists] :
      /\ \A i, j \in 1..Len(names) : names[i] = names[j] => d[i] = d[j]
      /\ \A i \in 1..Len(names) : names[i] = text => d[i] = 0 }

\* The orders IndexFlatL2 can report the catalogue in: ascending distance,
\* equal distances in any order.
FaissOrders(d) ==
  { p \in Orders(Len(d)) :
      \A i, j \in 1..Len(d) : i < j => At(d, p[i]) <= At(d, p[j]) }

\* The distance IndexFlatL2 reports with a missing neighbour (the largest
\* float32): any value no real distance reaches.
PadDistanceZero == 0 * Unit

PadDistance == 1000000 * Unit

\* The label IndexFlatL2 reports with a missing neighbour.
PadLabel == -1

\* faiss_index.search(query_embedding, k): row 0 of (distances, indices).
\* Always k entries; the catalogue's nearest first, then the padding.
faiss_search(d, order, k) ==
  [ distances |-> [j \in 1..k |-> IF j <= Len(d) THEN At(d, order[j])
                                   ELSE PadDistance],
    indices   |-> [j \in 1..k |-> IF j <= Len(d) THEN order[j] ELSE PadLabel] ]

-----------------------------------------------------------------------------
(* get_fuzzy_scores and search_products *)

Boost(b) == IF b THEN Unit ELSE 0

\* fuzz.token_set_ratio(query_clean, products[i].lower()) / 100
FuzzyScore(qc, name) == token_set_ratio(qc, Lower(name))

\* 1.0 if query_clean in products[i].lower() else 0.0
SubstringBoost(qc, name) == Boost(Contains(Lower(name), qc))

\* 1.0 if products[i].lower().startswith(query_clean) else 0.0
StartswithBoost(qc, name) == Boost(StartsWith(Lower(name), qc))

\* The three lexical signals of every pair of a normalized query and a
\* product name the model meets, computed once.
LexTable ==
  [qc \in { preprocess_query(q) : q \in QuerySet }, name \in NameSet |->
     [ fuzzy |-> FuzzyScore(qc, name),
       substring |-> SubstringBoost(qc, name),
       startswith |-> StartswithBoost(qc, name) ]]

\* get_fuzzy_scores(query_clean, indices): (fuzzy_scores, substring_boost),
\* in hundredths.
get_fuzzy_scores(qc, names, idx) ==
  [ fuzzy_scores    |-> [j \in 1..Len(idx) |-> LexTable[qc, PyIndex(names, idx[j])].fuzzy],
    substring_boost |-> [j \in 1..Len(idx) |-> LexTable[qc, PyIndex(names, idx[j])].substring] ]

\* startswith_boost, the list built in search_products.
StartswithBoosts(qc, names, idx) ==
  [j \in 1..Len(idx) |-> LexTable[qc, PyIndex(names, idx[j])].startswith]

\* ai_scores = 1 - distances[0]
AiScores(dists) == [j \in 1..Len(dists) |-> Unit - dists[j]]

\* The weighted sum of the four arrays, in thousandths.
FinalScores(ai, fuzzy, startswith, substring) ==
  [j \in 1..Len(ai) |->
     AiWeight * ai[j] + FuzzyWeight * fuzzy[j]
       + StartswithWeight * startswith[j] + SubstringWeight * substring[j]]

\* The comparison with >= in place of >.
PassesAtLeast(score) == score >= Threshold

\* final_scores > 0.1
Passes(score) == score > Threshold

RECURSIVE Ascending(_)
\* The elements of a set of integers, in ascending order.
Ascending(S) ==
  IF S = {} THEN <<>>
  ELSE LET least == CHOOSE x \in S : \A y \in S : x <= y
       IN <<least>> \o Ascending(S \ {least})

\* np.where(final_scores > 0.1)[0]
filtered_indices(scores) ==
  Ascending({ i \in 0..(Len(scores) - 1) : Passes(At(scores, i)) })

\* The results np.argsort(keys) can give: the default sort is not a stable
\* one, so equal keys come in any order.
ArgsortOrders(keys) ==
  { p \in Orders(Len(keys)) :
      \A i, j \in 1..Len(keys) : i < j => At(keys, p[i]) <= At(keys, p[j]) }

\* The keys without the minus sign.
SortKeysAscending(scores, filtered) ==
  [j \in 1..Len(filtered) |-> At(scores, filtered[j])]

\* -final_scores[filtered_indices], the keys of the sort.
SortKeys(scores, filtered) ==
  [j \in 1..Len(filtered) |-> 0 - At(scores, filtered[j])]

\* filtered_indices[np.argsort(...)][:top_k]
TopKIndices(filtered, sorted, k) ==
  Take([j \in 1..Len(filtered) |-> At(filtered, sorted[j])], k)

\* The name read at the candidate's rank, products[i].
ResultNameByRank(names, idx, i) == PyIndex(names, i)

\* products[indices[0][i]]
ResultName(names, idx, i) == PyIndex(names, At(idx, i))

\* [(products[indices[0][i]], final_scores[i]) for i in top_k_indices]
ResultList(names, idx, scores, top) ==
  [j \in 1..Len(top) |->
     [name |-> ResultName(names, idx, top[j]), score |-> At(scores, top[j])]]

\* The arrays search_products computes up to the threshold, for one answer
\* of the encoder (d) and one answer of the index (order).
Scored(qc, k, d, order) ==
  LET found == faiss_search(d, order, k * Oversample)
      ai == AiScores(found.distances)
      lex == get_fuzzy_scores(qc, products, found.indices)
      sw == StartswithBoosts(qc, products, found.indices)
      final == FinalScores(ai, lex.fuzzy_scores, sw, lex.substring_boost)
  IN [ distances |-> found.distances,
       indices |-> found.indices,
       ai_scores |-> ai,
       fuzzy_scores |-> lex.fuzzy_scores,
       substring_boost |-> lex.substring_boost,
       startswith_boost |-> sw,
       final_scores |-> final,
       filtered |-> filtered_indices(final) ]

\* The body of search_products(q, k).  The encoder's answer (d), the order
\* the index reports equal distances in and the order the sort leaves equal
\* scores in are the call's only freedom.
Search(q, k) ==
  \E qc \in {preprocess_query(q)} :
    \E d \in EncoderDistances(products, qc) :
      \E order \in FaissOrders(d) :
        \E s \in {Scored(qc, k, d, order)} :
          \E sorted \in ArgsortOrders(SortKeys(s.final_scores, s.filtered)) :
            \E top \in {TopKIndices(s.filtered, sorted, k)} :
              /\ query' = q
              /\ top_k' = k
              /\ query_clean' = qc
              /\ l2' = d
              /\ distances' = s.distances
              /\ indices' = s.indices
              /\ ai_scores' = s.ai_scores
              /\ fuzzy_scores' = s.fuzzy_scores
              /\ substring_boost' = s.substring_boost
              /\ startswith_boost' = s.startswith_boost
              /\ final_scores' = s.final_scores
              /\ top_k_indices' = top
              /\ results' = ResultList(products, s.indices, s.final_scores, top)

-----------------------------------------------------------------------------
(* The state machine. *)

NoLocals ==
  /\ query = <<>>
  /\ top_k = 0
  /\ query_clean = <<>>
  /\ l2 = <<>>
  /\ distances = <<>>
  /\ indices = <<>>
  /\ ai_scores = <<>>
  /\ fuzzy_scores = <<>>
  /\ substring_boost = <<>>
  /\ startswith_boost = <<>>
  /\ final_scores = <<>>
  /\ top_k_indices = <<>>
  /\ results = <<>>

\* The locals of a finished call are dropped.
DropLocals ==
  /\ query' = <<>>
  /\ top_k' = 0
  /\ query_clean' = <<>>
  /\ l2' = <<>>
  /\ distances' = <<>>
  /\ indices' = <<>>
  /\ ai_scores' = <<>>
  /\ fuzzy_scores' = <<>>
  /\ substring_boost' = <<>>
  /\ startswith_boost' = <<>>
  /\ final_scores' = <<>>
  /\ top_k_indices' = <<>>
  /\ results' = <<>>

\* The page after start-up: the catalogue is loaded and indexed, the text
\* input is empty.
Init ==
  /\ products \in Catalogs
  /\ pc = "ready"
  /\ NoLocals

\* search_products(query, top_k), called with any top_k.  With top_k = 0
\* the index is asked for no neighbour and every array is empty.
SearchProducts ==
  /\ pc = "ready"
  /\ \E q \in QuerySet, k \in 0..MaxTopK : Search(q, k)
  /\ pc' = "returned"
  /\ UNCHANGED products

\* One run of the page's script with a non-empty text input: the search
\* with the default top_k, then the warning or the list of matches.
RerunWithQuery ==
  /\ pc = "ready"
  /\ \E q \in QuerySet : Search(q, DefaultTopK)
  /\ pc' = IF Len(results') = 0 THEN "warning" ELSE "matches"
  /\ UNCHANGED products

\* One run of the page's script with an empty text input: no search, the
\* locals of the last run are gone.
RerunEmpty ==
  /\ pc \in {"returned", "warning", "matches"}
  /\ pc' = "info"
  /\ DropLocals
  /\ UNCHANGED products

\* The page waits for the next input.
Ready ==
  /\ pc = "info"
  /\ pc' = "ready"
  /\ UNCHANGED <<products, locals>>

Next == SearchProducts \/ RerunWithQuery \/ RerunEmpty \/ Ready

Spec == Init /\ [][Next]_vars

-----------------------------------------------------------------------------
(* The normalisation alone: preprocess_query on every short raw query. *)

InitNorm ==
  /\ products = << <<"A", "t">> >>
  /\ pc = "ready"
  /\ NoLocals

\* query_clean = preprocess_query(query), the first statement of
\* search_products.
PreprocessQuery ==
  /\ pc = "ready"
  /\ \E q \in Strings(MaxLen) :
       /\ query' = q
       /\ query_clean' = preprocess_query(q)
  /\ pc' = "normalized"
  /\ UNCHANGED <<products, top_k, l2, distances, indices, ai_scores, fuzzy_scores,
                 substring_boost, startswith_boost, final_scores, top_k_indices,
                 results>>

\* The call is over.
Forget ==
  /\ pc = "normalized"
  /\ pc' = "ready"
  /\ DropLocals
  /\ UNCHANGED products

NextNorm == PreprocessQuery \/ Forget

SpecNorm == InitNorm /\ [][NextNorm]_vars

-----------------------------------------------------------------------------
(* Properties of search_products. *)

\* A call of search_products has returned its list.
Returned == pc \in {"returned", "warning", "matches"}

\* The candidates (0-based positions of the arrays) that pass the threshold.
Passing == { i \in 0..(Len(final_scores) - 1) : At(final_scores, i) > Threshold }

\* The candidates the returned list holds.
Kept == { top_k_indices[r] : r \in 1..Len(top_k_indices) }

\* The catalogue position (0-based) behind candidate i; negative for the
\* padding.
Label(i) == At(indices, i)

\* The final score of catalogue row p (1-based) for the query of the call,
\* from the row's own name and its own distance.
RowScore(p) ==
  AiWeight * (Unit - l2[p])
    + FuzzyWeight * LexTable[query_clean, products[p]].fuzzy
    + StartswithWeight * LexTable[query_clean, products[p]].startswith
    + SubstringWeight * LexTable[query_clean, products[p]].substring

\* C1: the returned list has at most top_k entries, for every top_k >= 0 and
\* every catalogue size, also below 3 * top_k.
C1_AtMostTopK == Returned => Len(results) <= top_k

\* C1's case: a catalogue smaller than 3 * top_k, more candidates over the
\* threshold than top_k, and a full list.
C1_Witness ==
  /\ Returned
  /\ top_k >= 1
  /\ Len(products) < Oversample * top_k
  /\ Cardinality(Passing) > top_k
  /\ Len(results) = top_k

\* C2: every returned score is strictly greater than 0.1, and when no
\* candidate clears the threshold the call returns the empty list.
C2_AboveThreshold ==
  Returned =>
    /\ \A r \in 1..Len(results) : results[r].score > Threshold
    /\ \A i \in 0..(Len(final_scores) - 1) :
         At(final_scores, i) <= Threshold => i \notin Kept
    /\ (\A i \in 0..(Len(final_scores) - 1) : At(final_scores, i) <= Threshold)
         => results = <<>>

\* C2's case: a candidate whose score is exactly 0.1 is left out of a list
\* that holds another candidate.
C2_Witness ==
  /\ Returned
  /\ results # <<>>
  /\ \E i \in 0..(Len(final_scores) - 1) :
       At(final_scores, i) = Threshold /\ i \notin Kept /\ Len(results) < top_k

\* C3: the returned list is sorted non-increasing by score, and it holds the
\* top_k highest-scoring candidates among those over the threshold.
C3_SortedTopK ==
  Returned =>
    /\ \A r \in 1..(Len(results) - 1) : results[r].score >= results[r + 1].score
    /\ Len(results) = Min(top_k, Cardinality(Passing))
    /\ Kept \subseteq Passing
    /\ \A i \in Passing \ Kept :
         \A r \in 1..Len(results) : results[r].score >= At(final_scores, i)

\* C3's case: two entries of different scores are returned and a third
\* candidate over the threshold is cut off.
C3_Witness ==
  /\ Returned
  /\ Len(results) >= 2
  /\ results[1].score > results[2].score
  /\ \E i \in Passing \ Kept : At(final_scores, i) < results[Len(results)].score

\* C4 (as claimed): candidates of equal final score keep the order the index
\* returned them in, inside the list and at the top_k cut.  Stated for
\* candidates of different names, whose order shows in the returned list.
C4_StableTies ==
  Returned =>
    /\ \A a, b \in 1..Len(results) :
         (a < b /\ results[a].score = results[b].score
                /\ results[a].name # results[b].name)
           => top_k_indices[a] < top_k_indices[b]
    /\ \A i \in Passing \ Kept :
         \A r \in 1..Len(results) :
           (results[r].score = At(final_scores, i)
              /\ results[r].name # PyIndex(products, Label(i)))
             => top_k_indices[r] < i

\* C5 (as claimed): with an empty normalized query, no candidate gets a
\* substring or a prefix boost.
C5_EmptyQueryNoBoost ==
  (Returned /\ query_clean = <<>>) =>
    \A j \in 1..Len(indices) : substring_boost[j] = 0 /\ startswith_boost[j] = 0

\* C6 (as claimed): a catalogue row whose lower-cased name is the normalized
\* query and whose ai_score is >= 0 is the top entry, for every top_k >= 1.
\* Read in the claim's favour where scores tie: the top entry has that row's
\* name or that row's score.
C6_ExactMatchFirst ==
  (Returned /\ top_k >= 1) =>
    \A p \in 1..Len(products) :
      (Lower(products[p]) = query_clean /\ Unit - l2[p] >= 0)
        => /\ results # <<>>
           /\ results[1].name = products[p] \/ results[1].score = RowScore(p)

\* C6 (amended): when such a row is among the candidates and no candidate is
\* nearer, the list is not empty and its first entry has that row's score;
\* the first entry is that row unless another candidate has the same score.
C6_NearestExactMatchFirst ==
  (Returned /\ top_k >= 1) =>
    \A c \in 0..(Len(indices) - 1) :
      ( /\ Label(c) >= 0
        /\ Lower(products[Label(c) + 1]) = query_clean
        /\ Unit - At(distances, c) >= 0
        /\ \A o \in 0..(Len(indices) - 1) : At(distances, o) >= At(distances, c) )
      => /\ results # <<>>
         /\ results[1].score = At(final_scores, c)
         /\ (\A o \in 0..(Len(indices) - 1) :
               o # c => At(final_scores, o) # At(final_scores, c))
              => top_k_indices[1] = c

\* C6's case: the exact match is the nearest candidate, another row holding
\* the query's words follows it, and the exact match is returned first.
C6_Witness ==
  /\ Returned
  /\ top_k >= 1
  /\ results # <<>>
  /\ Lower(results[1].name) = query_clean
  /\ Label(top_k_indices[1]) >= 0
  /\ At(distances, top_k_indices[1]) = Unit
  /\ \E o \in 0..(Len(indices) - 1) :
       /\ Label(o) >= 0
       /\ o # top_k_indices[1]
       /\ At(fuzzy_scores, o) = Unit
       /\ At(distances, o) > Unit

\* C7: the score of every candidate is the weighted sum of that candidate's
\* own four signals (ai_score = 1 - its distance, fuzzy in [0,1], boosts 0
\* or 1), and every returned (name, score) is the name and the score of one
\* catalogue row.
C7_ScoreOfItsItem ==
  Returned =>
    /\ \A i \in 0..(Len(indices) - 1) :
         /\ At(fuzzy_scores, i) \in 0..Unit
         /\ At(substring_boost, i) \in {0, Unit}
         /\ At(startswith_boost, i) \in {0, Unit}
         /\ At(ai_scores, i) = Unit - At(distances, i)
         /\ Label(i) >= 0 =>
              /\ At(distances, i) = l2[Label(i) + 1]
              /\ At(final_scores, i) = RowScore(Label(i) + 1)
    /\ \A r \in 1..Len(results) :
         \E p \in 1..Len(products) :
           /\ p = Label(top_k_indices[r]) + 1
           /\ results[r].name = products[p]
           /\ results[r].score = RowScore(p)

\* C7's case: the index returned the rows in another order than the
\* catalogue's, and rows of different names and scores are returned.
C7_Witness ==
  /\ Returned
  /\ Len(results) >= 2
  /\ results[1].name # results[2].name
  /\ results[1].score # results[2].score
  /\ \E i \in 0..(Len(indices) - 1) : Label(i) >= 0 /\ Label(i) # i

\* C9 (as claimed): the candidate sequence has length min(3 * top_k, |index|),
\* ascends by distance and holds no placeholder entry.
C9_PoolIsCatalog ==
  Returned =>
    /\ Len(indices) = Min(Oversample * top_k, Len(products))
    /\ \A j \in 1..(Len(distances) - 1) : distances[j] <= distances[j + 1]
    /\ \A j \in 1..Len(indices) : indices[j] \in 0..(Len(products) - 1)

\* C10: every returned entry is a catalogue row the index found, no row is
\* returned twice, and no padded candidate is returned, also when 3 * top_k
\* exceeds the catalogue size.
C10_RealDistinctRows ==
  Returned =>
    /\ \A r \in 1..Len(top_k_indices) :
         /\ top_k_indices[r] \in 0..(Len(indices) - 1)
         /\ Label(top_k_indices[r]) \in 0..(Len(products) - 1)
    /\ \A a, b \in 1..Len(top_k_indices) :
         a # b => Label(top_k_indices[a]) # Label(top_k_indices[b])
    /\ \A i \in 0..(Len(indices) - 1) : Label(i) < 0 => ~Passes(At(final_scores, i))

\* C10's case: the index padded its answer, the padding was scored as the
\* last product, and that product is returned once.
C10_Witness ==
  /\ Returned
  /\ Oversample * top_k > Len(products)
  /\ \E i \in 0..(Len(indices) - 1) : Label(i) = PadLabel
  /\ \E r \in 1..Len(top_k_indices) : Label(top_k_indices[r]) = Len(products) - 1

-----------------------------------------------------------------------------
(* Property of preprocess_query. *)

\* A word of s starts at position i.
IsWordStart(s, i) ==
  /\ s[i] \notin Whitespace
  /\ i = 1 \/ s[i - 1] \in Whitespace

\* The last position of the word of s that holds position i.
WordEnd(s, i) ==
  CHOOSE j \in i..Len(s) :
    /\ \A x \in i..j : s[x] \notin Whitespace
    /\ j = Len(s) \/ s[j + 1] \in Whitespace

\* The starts of the words of s that are no stop words once lower-cased.
KeptStarts(s) ==
  { i \in 1..Len(s) :
      /\ IsWordStart(s, i)
      /\ [x \in 1..(WordEnd(s, i) - i + 1) |-> LowerChar(s[i + x - 1])] \notin stop_words }

\* The positions of s inside those words.
KeptChars(s) ==
  { x \in 1..Len(s) : \E i \in KeptStarts(s) : i <= x /\ x <= WordEnd(s, i) }

\* Where the word starting at i lands in the result: after the kept
\* characters before it and one blank per kept word before it.
Offset(s, i) ==
  Cardinality({ x \in KeptChars(s) : x < i }) + Cardinality({ k \in KeptStarts(s) : k < i })

\* C8: preprocess_query returns the lower-cased whitespace-separated words of
\* the input that are no stop words, in their order, joined by single
\* blanks; the empty string when no word is left.
C8_Normalized ==
  pc = "normalized" =>
    /\ Len(query_clean)
         = Cardinality(KeptChars(query)) + Max(0, Cardinality(KeptStarts(query)) - 1)
    /\ \A i \in KeptStarts(query) :
         /\ \A x \in 0..(WordEnd(query, i) - i) :
              query_clean[Offset(query, i) + 1 + x] = LowerChar(query[i + x])
         /\ Offset(query, i) > 0 => query_clean[Offset(query, i)] = " "

\* C8's case: an upper-case stop word is dropped and two kept words,
\* separated by a tab in the input, are joined by one blank.
C8_Witness ==
  /\ pc = "normalized"
  /\ query = <<"A", " ", "t", "\t", "o">>
  /\ query_clean = <<"t", " ", "o">>

====
